---- MODULE Spec2Model ----
(***************************************************************************)
(* Retrieval-augmented question answering route (POST handler).            *)
(* One request: Query payload, source gathering (precomputed embedding     *)
(* table or live web search with a per-item fetch/timeout race), answer    *)
(* streaming into a GPT row of message_history, follow-up questions.       *)
(***************************************************************************)
EXTENDS Integers, Sequences, FiniteSets, TLC

(***************************************************************************)
(* Bounds and program constants                                            *)
(***************************************************************************)
NumRequests == 2          \* request slots of the model
MaxRows == 5              \* rows the embedding table returns at most
MaxDocs == 5              \* results the search provider returns at most
MaxParts == 2             \* parts of one completion stream at most

TopCount == 4         \* similarities.slice(0, 4)
MaxSources == 4           \* normalizeData: .slice(0, 4)
MinContentLength == 250   \* htmlContent.length < 250
ChunkSize == 200          \* RecursiveCharacterTextSplitter chunkSize
MinVectorCount == 4       \* while (vectorCount < 4)
SeparatorLength == 2      \* join('\n\n')

Requests == 1..NumRequests

Min(a, b) == IF a < b THEN a ELSE b

RECURSIVE SumSeq(_)
SumSeq(s) == IF s = <<>> THEN 0 ELSE Head(s) + SumSeq(Tail(s))

IsPrefix(s, t) == Len(s) <= Len(t) /\ SubSeq(t, 1, Len(s)) = s

\* Array.prototype.slice(0, n)
Slice(s, n) == SubSeq(s, 1, Min(n, Len(s)))

(***************************************************************************)
(* JavaScript numbers: an integer value or NaN                             *)
(***************************************************************************)
Num(v) == [nan |-> FALSE, v |-> v]
NaN == [nan |-> TRUE, v |-> 0]

\* Number(piece) for a piece of a split string, given as its tokens:
\* "" is 0, one numeral is its value, anything else ("[1", "0]") is NaN.
Numerals == {"-1", "0", "1", "2"}
NumeralValue(t) == CASE t = "-1" -> 0 - 1 [] t = "0" -> 0 [] t = "1" -> 1 [] OTHER -> 2
Number(piece) ==
    IF piece = <<>> THEN Num(0)
    ELSE IF Len(piece) = 1 /\ piece[1] \in Numerals THEN Num(NumeralValue(piece[1]))
    ELSE NaN

\* String.prototype.split(',') on a token string
RECURSIVE SplitComma(_, _)
SplitComma(s, cur) ==
    IF s = <<>> THEN <<cur>>
    ELSE IF Head(s) = "," THEN <<cur>> \o SplitComma(Tail(s), <<>>)
    ELSE SplitComma(Tail(s), Append(cur, Head(s)))

IsBrace(t) == t \in {"{", "}"}

\* row.embedding.replace(/[{}]/g, '')
StripBraces(s) == SelectSeq(s, LAMBDA t : ~IsBrace(t))

\* An embedding column value: a number array, or a string of tokens.
ArrayEmbedding(v) == [isString |-> FALSE, arr |-> v, str |-> <<>>]
StringEmbedding(s) == [isString |-> TRUE, arr |-> <<>>, str |-> s]

\* typeof row.embedding === 'string'
\*   ? row.embedding.replace(/[{}]/g, '').split(',').map(Number) : row.embedding
embeddingArray(e) ==
    IF e.isString
    THEN LET pieces == SplitComma(StripBraces(e.str), <<>>)
         IN [i \in 1..Len(pieces) |-> Number(pieces[i])]
    ELSE [i \in 1..Len(e.arr) |-> Num(e.arr[i])]

(***************************************************************************)
(* cosineSimilarity: dotProduct / (sqrt(sumA) * sqrt(sumB)), kept exact as *)
(* the triple (dot, sumA, sumB); NaN where JavaScript yields NaN.          *)
(***************************************************************************)
RECURSIVE DotFrom(_, _, _)
DotFrom(vecA, vecB, idx) ==
    IF idx > Len(vecA) THEN 0
    ELSE vecA[idx].v * vecB[idx].v + DotFrom(vecA, vecB, idx + 1)

SumSquares(vec) == SumSeq([i \in 1..Len(vec) |-> vec[i].v * vec[i].v])

HasNaN(vec) == \E i \in 1..Len(vec) : vec[i].nan

NaNSimilarity == [nan |-> TRUE, dot |-> 0, sumA |-> 1, sumB |-> 1]

cosineSimilarity(vecA, vecB) ==
    IF \/ HasNaN(vecA) \/ HasNaN(vecB)
       \/ (vecA # <<>> /\ Len(vecB) < Len(vecA))    \* a * undefined
       \/ SumSquares(vecA) = 0 \/ SumSquares(vecB) = 0   \* 0 / 0
    THEN NaNSimilarity
    ELSE [nan |-> FALSE, dot |-> DotFrom(vecA, vecB, 1),
          sumA |-> SumSquares(vecA), sumB |-> SumSquares(vecB)]

SignedSquare(x) == IF x < 0 THEN 0 - (x * x) ELSE x * x

\* x < y for two similarities that are numbers
SimLess(x, y) ==
    SignedSquare(x.dot) * y.sumA * y.sumB < SignedSquare(y.dot) * x.sumA * x.sumB

\* the comparator (a, b) => b.similarity - a.similarity, by sign; NaN counts as 0
compareFn(a, b) ==
    IF a.similarity.nan \/ b.similarity.nan THEN 0
    ELSE IF SimLess(a.similarity, b.similarity) THEN 1
    ELSE IF SimLess(b.similarity, a.similarity) THEN 0 - 1
    ELSE 0

(***************************************************************************)
(* Array.prototype.sort(compareFn).  With a consistent comparator the      *)
(* result is the stable sorted order; with an inconsistent one (a NaN      *)
(* beside two different numbers) the order is implementation-defined: any  *)
(* permutation of the elements.                                            *)
(***************************************************************************)
ConsistentComparator(s) ==
    \A i, j, k \in 1..Len(s) :
        /\ (compareFn(s[i], s[j]) = 0 /\ compareFn(s[j], s[k]) = 0
                => compareFn(s[i], s[k]) = 0)
        /\ (compareFn(s[i], s[j]) < 0 /\ compareFn(s[j], s[k]) < 0
                => compareFn(s[i], s[k]) < 0)

RECURSIVE InsertSorted(_, _)
InsertSorted(x, t) ==
    IF t = <<>> THEN <<x>>
    ELSE IF compareFn(Head(t), x) <= 0 THEN <<Head(t)>> \o InsertSorted(x, Tail(t))
    ELSE <<x>> \o t

RECURSIVE StableSort(_)
StableSort(s) ==
    IF s = <<>> THEN <<>>
    ELSE InsertSorted(s[Len(s)], StableSort(SubSeq(s, 1, Len(s) - 1)))

RECURSIVE Orderings(_)
Orderings(S) ==
    IF S = {} THEN {<<>>}
    ELSE UNION {{<<x>> \o p : p \in Orderings(S \ {x})} : x \in S}

Reorderings(s) == {[i \in 1..Len(s) |-> s[p[i]]] : p \in Orderings(1..Len(s))}

sort(s) == IF ConsistentComparator(s) THEN {StableSort(s)} ELSE Reorderings(s)

(***************************************************************************)
(* searchEngineForSources, database branch: the synchronous computation    *)
(* between the table read and the 'Sources' payload.                       *)
(***************************************************************************)
\* embeddingsData.map((row) => ({embedding, content, url}))
documents(embeddingsData) ==
    [i \in 1..Len(embeddingsData) |->
        [embedding |-> embeddingArray(embeddingsData[i].embedding),
         content |-> embeddingsData[i].content,
         url |-> embeddingsData[i].url]]

\* documents.map((doc) => ({content, url, similarity}))
similarities(queryEmbedding, docs) ==
    [i \in 1..Len(docs) |->
        [content |-> docs[i].content,
         url |-> docs[i].url,
         similarity |-> cosineSimilarity(queryEmbedding, docs[i].embedding)]]

\* similarities.slice(0, 4), after the sort
topDocuments(sorted) == Slice(sorted, TopCount)

\* topDocuments.map((doc) => doc.content).join('\n\n'): the pieces in order,
\* and the length of the joined text
contextText(top) ==
    LET pieces == [i \in 1..Len(top) |-> top[i].content]
    IN [pieces |-> pieces,
        length |-> SumSeq([i \in 1..Len(pieces) |-> pieces[i].len])
                     + (IF pieces = <<>> THEN 0
                        ELSE SeparatorLength * (Len(pieces) - 1))]

\* topDocuments.map((doc) => ({title: doc.content, link: doc.url}))
sourcesPayload(top) ==
    [i \in 1..Len(top) |-> [title |-> top[i].content, link |-> top[i].url]]

(***************************************************************************)
(* Inputs of the database branch                                           *)
(***************************************************************************)
\* (embedding column value, the vector it denotes, content length) a stored row
\* may have: arrays, among them the zero vector, and the text forms {0,1}, [1,2]
RowKinds ==
    { [embedding |-> ArrayEmbedding(<<1, 0>>), vector |-> <<1, 0>>, len |-> 100],
      [embedding |-> ArrayEmbedding(<<1, 1>>), vector |-> <<1, 1>>, len |-> 1000],
      [embedding |-> ArrayEmbedding(<<0, 0>>), vector |-> <<0, 0>>, len |-> 100],
      [embedding |-> StringEmbedding(<<"{", "0", ",", "1", "}">>),
       vector |-> <<0, 1>>, len |-> 300],
      [embedding |-> StringEmbedding(<<"[", "1", ",", "2", "]">>),
       vector |-> <<1, 2>>, len |-> 100] }

\* row i of a result set: url and content are those of row i
Row(i, kind) ==
    [id |-> i, url |-> i, content |-> [text |-> i, len |-> kind.len],
     embedding |-> kind.embedding, vector |-> kind.vector]

TablesOf(n) == {[i \in 1..n |-> Row(i, k[i])] : k \in [1..n -> RowKinds]}

Tables == UNION {TablesOf(n) : n \in 0..MaxRows}

\* query embeddings the embedding endpoint may return
QueryEmbeddings == {<<Num(2), Num(1)>>, <<Num(1), Num(0)>>}

(***************************************************************************)
(* Inputs and operators of the web-search branch                           *)
(***************************************************************************)
\* String.prototype.includes on token strings
Includes(str, token) == \E i \in 1..Len(str) : str[i] = token

\* the i-th result of the search provider, by kind
SearchDoc(i, kind) ==
    [title |-> IF kind = "noTitle" THEN <<>> ELSE <<"title", ToString(i)>>,
     link |-> CASE kind = "noLink" -> <<>>
                [] kind = "brave" -> <<"search.", "brave.com", "/", ToString(i)>>
                [] OTHER -> <<"example.org/", ToString(i)>>,
     snippet |-> i]

DocKinds == {"ok", "noTitle", "noLink", "brave"}

SearchResultsOf(n) == {[i \in 1..n |-> SearchDoc(i, k[i])] : k \in [1..n -> DocKinds]}

SearchResults == UNION {SearchResultsOf(n) : n \in 0..MaxDocs}

\* doc.title && doc.link && !doc.link.includes('brave.com')
KeepDoc(doc) == doc.title # <<>> /\ doc.link # <<>> /\ ~Includes(doc.link, "brave.com")

\* variant: results of the search provider's own site are not filtered out
normalizeDataKeepBrave(docs) ==
    LET kept == Slice(SelectSeq(docs, LAMBDA doc : doc.title # <<>> /\ doc.link # <<>>),
                      MaxSources)
    IN [i \in 1..Len(kept) |-> [title |-> kept[i].title, link |-> kept[i].link]]

\* JSON.parse(docs).filter(...).slice(0, 4).map(({title, link}) => ({title, link}))
normalizeData(docs) ==
    LET kept == Slice(SelectSeq(docs, KeepDoc), MaxSources)
    IN [i \in 1..Len(kept) |-> [title |-> kept[i].title, link |-> kept[i].link]]

\* lengths of the text extracted from a fetched page
PageLengths == {100, 300}

\* a settled fan-out item: null, or the array similaritySearch(message, 1) returns
NullResult == [null |-> TRUE, docs |-> <<>>]
SearchHit(link) ==
    [null |-> FALSE,
     docs |-> <<[pageContent |-> [text |-> link, len |-> ChunkSize],
                 metadata |-> link]>>]

\* the state of fetchAndProcess(item): where it is suspended, its page fetch,
\* its timer, whether the timer won the race, what it resolved to
NewItem(item) ==
    [link |-> item.link, pc |-> "race", fetch |-> "pending", timer |-> "set",
     timedOut |-> FALSE, result |-> NullResult]

\* results.filter((result) => result !== null), then at most 4 of them
topResult(items) ==
    LET results == [i \in 1..Len(items) |-> items[i].result]
        successfulResults == SelectSeq(results, LAMBDA res : ~res.null)
    IN IF Len(successfulResults) > MaxSources
       THEN Slice(successfulResults, MaxSources)
       ELSE successfulResults

(***************************************************************************)
(* The payload sink: rows of message_history, ids given by the store       *)
(***************************************************************************)
\* supabase.from('message_history').insert([{ payload }]).select('id')
insertRow(rows, payload) == Append(rows, [id |-> Len(rows) + 1, payload |-> payload])

\* sendPayload(content): one insert
sendPayload(rows, content) == insertRow(rows, content)

\* createRowForGPTResponse(): insert { type: 'GPT', content: '' }
createRowForGPTResponse(rows) == insertRow(rows, [type |-> "GPT", content |-> <<>>])

\* variant: the row is deleted and inserted again instead of updated in place
updateByDeleteAndReinsert(rows, rowId, content) ==
    insertRow(SelectSeq(rows, LAMBDA row : row.id # rowId),
              [type |-> "GPT", content |-> content])

\* updateRowWithGPTResponse(rowId, content): update ... .eq('id', rowId);
\* nothing is written for a falsy rowId
updateRowWithGPTResponse(rows, rowId, content) ==
    IF rowId = 0 THEN rows
    ELSE [i \in 1..Len(rows) |->
            IF rows[i].id = rowId
            THEN [rows[i] EXCEPT !.payload = [type |-> "GPT", content |-> content]]
            ELSE rows[i]]

\* the strings given to triggerLLMAndFollowup
dbInputString(context, message) ==
    [form |-> "Context/Query", context |-> context, results |-> <<>>, message |-> message]
webInputString(message, results) ==
    [form |-> "Query/TopResults", context |-> contextText(<<>>), results |-> results,
     message |-> message]
NoInput == [form |-> "none", context |-> contextText(<<>>), results |-> <<>>, message |-> ""]

\* generateFollowup(message): the completion the generator returns for its input
generateFollowup(input) == <<[followUpFor |-> input]>>

\* triggerLLMAndFollowup: the arguments of getGPTResults and generateFollowup
answerInput(inputString) == inputString
\* variant: the follow-up generator is given the bare message
followupInputMessageOnly(inputString) ==
    [form |-> "message", context |-> contextText(<<>>), results |-> <<>>,
     message |-> inputString.message]
followupInput(inputString) == inputString

\* the k-th part of the completion stream of request r: no delta content (or ''),
\* or a token of that stream
StreamParts(r, k) == {<<>>, <<ToString(r) \o "." \o ToString(k)>>}

\* variant: the delta replaces the accumulated content ('=' for '+=')
accumulateLastOnly(accumulatedContent, delta) ==
    IF delta # <<>> THEN delta ELSE accumulatedContent

\* if (part.choices[0]?.delta?.content) accumulatedContent += ...
accumulate(accumulatedContent, delta) ==
    IF delta # <<>> THEN accumulatedContent \o delta ELSE accumulatedContent

Messages == {"q"}
EmbeddingSources == {"database", "web", "absent"}

(***************************************************************************)
(* State                                                                   *)
(***************************************************************************)
VARIABLES
    req,     \* per request: where POST is suspended and its local variables
    store,   \* the rows of message_history, in insertion order
    log      \* history of the writes issued to message_history

vars == <<req, store, log>>

NoCalls == [embed |-> 0, table |-> 0, rephrase |-> 0, search |-> 0, fetch |-> 0]

NewRequest(pc) ==
    [pc |-> pc, message |-> "", embeddingSource |-> "absent",
     queryEmbedding |-> <<>>, embeddingsData |-> <<>>, topDocuments |-> <<>>,
     contextText |-> contextText(<<>>),
     docs |-> <<>>, normalizedData |-> <<>>, items |-> <<>>, vectorCount |-> 0,
     inputString |-> NoInput, gptInput |-> NoInput, followupInput |-> NoInput,
     rowId |-> 0, accumulatedContent |-> <<>>, received |-> <<>>,
     followUpResult |-> <<>>, response |-> "none", calls |-> NoCalls]

\* one incoming request; the other slots stay unused
Init ==
    /\ req = [r \in Requests |-> NewRequest(IF r = 1 THEN "start" ELSE "absent")]
    /\ store = <<>>
    /\ log = <<>>

Insert(r, payload, rows) ==
    /\ store' = rows
    /\ log' = Append(log, [op |-> "insert", id |-> Len(store) + 1,
                           payload |-> payload, req |-> r])

(***************************************************************************)
(* POST                                                                    *)
(***************************************************************************)
\* const { message, embeddingSource } = await req.json(); sendPayload(Query) issued
Post(r) ==
    /\ req[r].pc = "start"
    /\ \E m \in Messages, src \in EmbeddingSources :
          req' = [req EXCEPT ![r] = [@ EXCEPT !.pc = "query", !.message = m,
                                              !.embeddingSource = src]]
    /\ UNCHANGED <<store, log>>

\* variant: the branch is taken on any embeddingSource given, not on 'database'
SendQueryAnySource(r) ==
    /\ req[r].pc = "query"
    /\ LET payload == [type |-> "Query", content |-> <<req[r].message>>]
       IN Insert(r, payload, sendPayload(store, payload))
    /\ req' = [req EXCEPT ![r] =
                 IF req[r].embeddingSource # "absent"
                 THEN [@ EXCEPT !.pc = "embedQuery", !.calls.embed = @ + 1]
                 ELSE [@ EXCEPT !.pc = "rephrase", !.calls.rephrase = @ + 1]]

\* the 'Query' insert returns; searchEngineForSources starts its first call
SendQuery(r) ==
    /\ req[r].pc = "query"
    /\ LET payload == [type |-> "Query", content |-> <<req[r].message>>]
       IN Insert(r, payload, sendPayload(store, payload))
    /\ req' = [req EXCEPT ![r] =
                 IF req[r].embeddingSource = "database"
                 THEN [@ EXCEPT !.pc = "embedQuery", !.calls.embed = @ + 1]
                 ELSE [@ EXCEPT !.pc = "rephrase", !.calls.rephrase = @ + 1]]

(***************************************************************************)
(* searchEngineForSources, database branch                                 *)
(***************************************************************************)
\* openai.embeddings.create returns; the table read is issued
EmbedQuery(r) ==
    /\ req[r].pc = "embedQuery"
    /\ \E q \in QueryEmbeddings :
          req' = [req EXCEPT ![r] = [@ EXCEPT !.pc = "readTable", !.queryEmbedding = q,
                                              !.calls.table = @ + 1]]
    /\ UNCHANGED <<store, log>>

\* the rows arrive: similarities, sort, top documents, context; 'Sources' issued
ReadTableFrom(r, tables) ==
    /\ req[r].pc = "readTable"
    /\ \E rows \in tables :
         \E sorted \in sort(similarities(req[r].queryEmbedding, documents(rows))) :
            req' = [req EXCEPT ![r] =
                      [@ EXCEPT !.pc = "dbSources", !.embeddingsData = rows,
                                !.topDocuments = topDocuments(sorted),
                                !.contextText = contextText(topDocuments(sorted))]]
    /\ UNCHANGED <<store, log>>

\* the 'Sources' insert returns; 'VectorCreation' issued
SendSourcesDb(r) ==
    /\ req[r].pc = "dbSources"
    /\ LET payload == [type |-> "Sources", content |-> sourcesPayload(req[r].topDocuments)]
       IN Insert(r, payload, sendPayload(store, payload))
    /\ req' = [req EXCEPT ![r] = [@ EXCEPT !.pc = "dbVector"]]

\* the 'VectorCreation' insert returns; triggerLLMAndFollowup(Context..Query)
SendVectorDb(r) ==
    /\ req[r].pc = "dbVector"
    /\ LET payload == [type |-> "VectorCreation",
                       content |-> <<"Finished Retrieving Embeddings from Database.">>]
       IN Insert(r, payload, sendPayload(store, payload))
    /\ req' = [req EXCEPT ![r] =
                 [@ EXCEPT !.pc = "openStream",
                           !.inputString = dbInputString(req[r].contextText, req[r].message)]]

(***************************************************************************)
(* searchEngineForSources, web-search branch                               *)
(***************************************************************************)
\* rephraseInput returns; the search provider is called
Rephrase(r) ==
    /\ req[r].pc = "rephrase"
    /\ req' = [req EXCEPT ![r] = [@ EXCEPT !.pc = "search", !.calls.search = @ + 1]]
    /\ UNCHANGED <<store, log>>

\* the provider returns; normalizeData; 'Sources' issued
SearchFrom(r, results) ==
    /\ req[r].pc = "search"
    /\ \E docs \in results :
          req' = [req EXCEPT ![r] = [@ EXCEPT !.pc = "webSources", !.docs = docs,
                                              !.normalizedData = normalizeData(docs)]]
    /\ UNCHANGED <<store, log>>

\* the 'Sources' insert returns; normalizedData.map(fetchAndProcess) starts every
\* item: its timer is set, its page fetch is issued, it awaits their race
SendSourcesWeb(r) ==
    /\ req[r].pc = "webSources"
    /\ LET payload == [type |-> "Sources", content |-> req[r].normalizedData]
       IN Insert(r, payload, sendPayload(store, payload))
    /\ req' = [req EXCEPT ![r] =
                 [@ EXCEPT !.pc = "fanout", !.docs = <<>>,
                           !.items = [i \in 1..Len(req[r].normalizedData) |->
                                         NewItem(req[r].normalizedData[i])],
                           !.calls.fetch = @ + Len(req[r].normalizedData)]]

Racing(r, i) == req[r].pc = "fanout" /\ req[r].items[i].pc = "race"

SetItem(r, i, item) == [req EXCEPT ![r].items[i] = item]

\* the fetch wins the race: too short a text yields null, else splitText starts
FetchResolve(r, i) ==
    /\ Racing(r, i)
    /\ \E length \in PageLengths :
          req' = SetItem(r, i,
                    IF length < MinContentLength
                    THEN [req[r].items[i] EXCEPT !.pc = "done", !.fetch = "settled"]
                    ELSE [req[r].items[i] EXCEPT !.pc = "split", !.fetch = "settled"])
    /\ UNCHANGED <<store, log>>

\* the fetch fails before the timer: catch, vectorCount++, null
FetchReject(r, i) ==
    /\ Racing(r, i)
    /\ req' = [SetItem(r, i, [req[r].items[i] EXCEPT !.pc = "done", !.fetch = "settled"])
                 EXCEPT ![r].vectorCount = @ + 1]
    /\ UNCHANGED <<store, log>>

\* the timer wins the race: reject(new Error('Timeout')), catch, vectorCount++, null
TimerFire(r, i) ==
    /\ Racing(r, i)
    /\ req' = [SetItem(r, i, [req[r].items[i] EXCEPT !.pc = "done", !.timer = "fired",
                                                      !.timedOut = TRUE])
                 EXCEPT ![r].vectorCount = @ + 1]
    /\ UNCHANGED <<store, log>>

\* the timer fires after the fetch settled the race: its rejection is dropped
LateTimer(r, i) ==
    /\ req[r].pc = "fanout"
    /\ req[r].items[i].pc # "race"
    /\ req[r].items[i].timer = "set"
    /\ req' = SetItem(r, i, [req[r].items[i] EXCEPT !.timer = "fired"])
    /\ UNCHANGED <<store, log>>

\* variant: a fetch settling after the timer still resolves the item
lateFetchResolves(item) ==
    [item EXCEPT !.fetch = "settled", !.result = SearchHit(item.link)]

\* what a fetch that settles after its timer fired does to the item
lateFetch(item) == [item EXCEPT !.fetch = "settled"]

\* the page fetch of a timed-out item completes or fails, at any later time
LateFetch(r, i) ==
    /\ i \in 1..Len(req[r].items)
    /\ req[r].items[i].timedOut
    /\ req[r].items[i].fetch = "pending"
    /\ req' = SetItem(r, i, lateFetch(req[r].items[i]))
    /\ UNCHANGED <<store, log>>

\* splitText returns; MemoryVectorStore.fromTexts starts
SplitText(r, i) ==
    /\ req[r].pc = "fanout" /\ req[r].items[i].pc = "split"
    /\ req' = SetItem(r, i, [req[r].items[i] EXCEPT !.pc = "embed"])
    /\ UNCHANGED <<store, log>>

\* fromTexts returns; vectorCount++; similaritySearch starts
FromTexts(r, i) ==
    /\ req[r].pc = "fanout" /\ req[r].items[i].pc = "embed"
    /\ req' = [SetItem(r, i, [req[r].items[i] EXCEPT !.pc = "search"])
                 EXCEPT ![r].vectorCount = @ + 1]
    /\ UNCHANGED <<store, log>>

\* similaritySearch(message, 1) returns: the item resolves to its result
SimilaritySearch(r, i) ==
    /\ req[r].pc = "fanout" /\ req[r].items[i].pc = "search"
    /\ req' = SetItem(r, i, [req[r].items[i] EXCEPT
                                !.pc = "done", !.result = SearchHit(req[r].items[i].link)])
    /\ UNCHANGED <<store, log>>

\* variant: no catch in fetchAndProcess, the rejection reaches Promise.all and POST
ItemThrowUncaught(r, i) ==
    /\ req[r].pc = "fanout" /\ req[r].items[i].pc \in {"split", "embed", "search"}
    /\ req' = [req EXCEPT ![r] = [@ EXCEPT !.pc = "failed", !.response = "error"]]
    /\ UNCHANGED <<store, log>>

\* splitText, fromTexts or similaritySearch throws: catch, vectorCount++, null
ItemThrow(r, i) ==
    /\ req[r].pc = "fanout" /\ req[r].items[i].pc \in {"split", "embed", "search"}
    /\ req' = [SetItem(r, i, [req[r].items[i] EXCEPT !.pc = "done"])
                 EXCEPT ![r].vectorCount = @ + 1]
    /\ UNCHANGED <<store, log>>

AllSettled(r) == \A i \in 1..Len(req[r].items) : req[r].items[i].pc = "done"

\* Promise.all resolves; vectorCount is raised to 4; 'VectorCreation' issued
FanIn(r) ==
    /\ req[r].pc = "fanout"
    /\ AllSettled(r)
    /\ req' = [req EXCEPT ![r] =
                 [@ EXCEPT !.pc = "webVector",
                           !.vectorCount = IF @ < MinVectorCount THEN MinVectorCount ELSE @]]
    /\ UNCHANGED <<store, log>>

\* the 'VectorCreation' insert returns; triggerLLMAndFollowup(Query..Top Results)
SendVectorWeb(r) ==
    /\ req[r].pc = "webVector"
    /\ LET payload == [type |-> "VectorCreation",
                       content |-> <<"Finished Scanning Sources.">>]
       IN Insert(r, payload, sendPayload(store, payload))
    /\ req' = [req EXCEPT ![r] =
                 [@ EXCEPT !.pc = "openStream",
                           !.inputString = webInputString(req[r].message,
                                                          topResult(req[r].items))]]

(***************************************************************************)
(* triggerLLMAndFollowup, getGPTResults                                    *)
(***************************************************************************)
\* the streaming completion is opened on inputString; the GPT row insert is issued
OpenStream(r) ==
    /\ req[r].pc = "openStream"
    /\ req' = [req EXCEPT ![r] = [@ EXCEPT !.pc = "createRow",
                                           !.gptInput = answerInput(req[r].inputString)]]
    /\ UNCHANGED <<store, log>>

\* variant: rowId is not the id the insert returned but the one before it
CreateRowStaleId(r) ==
    /\ req[r].pc = "createRow"
    /\ Insert(r, [type |-> "GPT", content |-> <<>>], createRowForGPTResponse(store))
    /\ req' = [req EXCEPT ![r] = [@ EXCEPT !.pc = "heading", !.rowId = Len(store)]]

\* variant: rowId is one variable of the module, shared by the requests in flight
CreateRowSharedId(r) ==
    /\ req[r].pc = "createRow"
    /\ Insert(r, [type |-> "GPT", content |-> <<>>], createRowForGPTResponse(store))
    /\ req' = [q \in Requests |->
                 IF q = r THEN [req[q] EXCEPT !.pc = "heading", !.rowId = Len(store) + 1]
                 ELSE IF req[q].rowId # 0 THEN [req[q] EXCEPT !.rowId = Len(store) + 1]
                 ELSE req[q]]

\* createRowForGPTResponse returns the id of the new row; 'Heading' issued
CreateRow(r) ==
    /\ req[r].pc = "createRow"
    /\ Insert(r, [type |-> "GPT", content |-> <<>>], createRowForGPTResponse(store))
    /\ req' = [req EXCEPT ![r] = [@ EXCEPT !.pc = "heading", !.rowId = Len(store) + 1]]

\* the 'Heading' insert returns; the loop over the stream starts
SendHeading(r) ==
    /\ req[r].pc = "heading"
    /\ LET payload == [type |-> "Heading", content |-> <<"Answer">>]
       IN Insert(r, payload, sendPayload(store, payload))
    /\ req' = [req EXCEPT ![r] = [@ EXCEPT !.pc = "stream"]]

\* one part of the stream: accumulate its delta and update the row, if it has one
StreamPart(r) ==
    /\ req[r].pc = "stream"
    /\ Len(req[r].received) < MaxParts
    /\ \E delta \in StreamParts(r, Len(req[r].received) + 1) :
         LET content == accumulate(req[r].accumulatedContent, delta)
         IN /\ req' = [req EXCEPT ![r] = [@ EXCEPT !.received = Append(@, delta),
                                                   !.accumulatedContent = content]]
            /\ IF delta # <<>>
               THEN /\ store' = updateRowWithGPTResponse(store, req[r].rowId, content)
                    /\ log' = IF req[r].rowId = 0 THEN log
                              ELSE Append(log, [op |-> "update", id |-> req[r].rowId,
                                                payload |-> [type |-> "GPT",
                                                             content |-> content],
                                                req |-> r])
               ELSE UNCHANGED <<store, log>>

\* the stream ends; generateFollowup is called
StreamEnd(r) ==
    /\ req[r].pc = "stream"
    /\ req' = [req EXCEPT ![r] = [@ EXCEPT !.pc = "followup",
                                           !.followupInput = followupInput(req[r].inputString)]]
    /\ UNCHANGED <<store, log>>

\* variant: the response is returned without awaiting the 'FollowUp' insert
GenerateFollowupRespondEarly(r) ==
    /\ req[r].pc = "followup"
    /\ req' = [req EXCEPT ![r] =
                 [@ EXCEPT !.pc = "sendFollowup", !.response = "ok",
                           !.followUpResult = generateFollowup(req[r].followupInput)]]
    /\ UNCHANGED <<store, log>>

\* the follow-up completion returns; the 'FollowUp' insert is issued
GenerateFollowup(r) ==
    /\ req[r].pc = "followup"
    /\ req' = [req EXCEPT ![r] =
                 [@ EXCEPT !.pc = "sendFollowup",
                           !.followUpResult = generateFollowup(req[r].followupInput)]]
    /\ UNCHANGED <<store, log>>

\* the 'FollowUp' insert returns; POST returns { message: 'Processing request' }
SendFollowup(r) ==
    /\ req[r].pc = "sendFollowup"
    /\ LET payload == [type |-> "FollowUp", content |-> req[r].followUpResult]
       IN Insert(r, payload, sendPayload(store, payload))
    /\ req' = [req EXCEPT ![r] = [@ EXCEPT !.pc = "done", !.response = "ok"]]

\* the call POST awaits (outside the fan-out items) fails: the catch of POST
\* returns status 500
AwaitingCall ==
    {"start", "query", "embedQuery", "readTable", "dbSources", "dbVector",
     "rephrase", "search", "webSources", "webVector", "openStream", "createRow",
     "heading", "stream", "followup", "sendFollowup"}

\* variant: the catch of POST answers as the success path does
FailRespondsOk(r) ==
    /\ req[r].pc \in AwaitingCall
    /\ req' = [req EXCEPT ![r] = [NewRequest("failed") EXCEPT !.response = "ok",
                                      !.message = req[r].message,
                                      !.embeddingSource = req[r].embeddingSource,
                                      !.calls = req[r].calls]]
    /\ UNCHANGED <<store, log>>

Fail(r) ==
    /\ req[r].pc \in AwaitingCall
    /\ req' = [req EXCEPT ![r] = [NewRequest("failed") EXCEPT !.response = "error",
                                      !.message = req[r].message,
                                      !.embeddingSource = req[r].embeddingSource,
                                      !.calls = req[r].calls]]
    /\ UNCHANGED <<store, log>>

(***************************************************************************)
(* Specifications                                                          *)
(***************************************************************************)
\* tables of the whole pipeline: none, two rows, or one row followed by
\* MaxRows - 1 rows that are alike
PipelineTables == TablesOf(0) \cup TablesOf(2) \cup
    {t \in TablesOf(MaxRows) :
        \A i \in 2..MaxRows : /\ t[i].embedding = t[2].embedding
                              /\ t[i].content.len = t[2].content.len}

\* search results of the whole pipeline: at most one result that is filtered out
PipelineSearchResults ==
    {docs \in SearchResults :
        Cardinality({i \in 1..Len(docs) : ~KeepDoc(docs[i])}) <= 1}

\* the database branch alone, over every table
NextRank ==
    \E r \in Requests :
        \/ Post(r) \/ SendQuery(r)
        \/ EmbedQuery(r) \/ ReadTableFrom(r, Tables)
        \/ SendSourcesDb(r) \/ SendVectorDb(r)

SpecRank == Init /\ [][NextRank]_vars

\* source gathering alone, over every list of search results: both branches up
\* to the start of the fan-out and to triggerLLMAndFollowup
NextSources ==
    \E r \in Requests :
        \/ Post(r) \/ SendQuery(r)
        \/ EmbedQuery(r) \/ ReadTableFrom(r, PipelineTables)
        \/ SendSourcesDb(r) \/ SendVectorDb(r)
        \/ Rephrase(r) \/ SearchFrom(r, SearchResults) \/ SendSourcesWeb(r)
        \/ Fail(r)

SpecSources == Init /\ [][NextSources]_vars

ItemStep(r) ==
    \E i \in 1..Len(req[r].items) :
        \/ FetchResolve(r, i) \/ FetchReject(r, i) \/ TimerFire(r, i) \/ LateFetch(r, i)
        \/ SplitText(r, i) \/ FromTexts(r, i) \/ SimilaritySearch(r, i) \/ ItemThrow(r, i)

Next ==
    \E r \in Requests :
        \/ Post(r) \/ SendQuery(r)
        \/ EmbedQuery(r) \/ ReadTableFrom(r, PipelineTables)
        \/ SendSourcesDb(r) \/ SendVectorDb(r)
        \/ Rephrase(r) \/ SearchFrom(r, PipelineSearchResults) \/ SendSourcesWeb(r)
        \/ ItemStep(r) \/ FanIn(r) \/ SendVectorWeb(r)
        \/ OpenStream(r) \/ CreateRow(r) \/ SendHeading(r)
        \/ StreamPart(r) \/ StreamEnd(r) \/ GenerateFollowup(r) \/ SendFollowup(r)
        \/ Fail(r)

Spec == Init /\ [][Next]_vars

\* the web-search branch up to 'VectorCreation', every timer followed until it
\* fires. Every timer set fires (setTimeout, 5000 ms), the continuation of a
\* settled Promise.all runs, and the store answers an insert; a page fetch,
\* splitText, fromTexts and similaritySearch are calls that may never return.
NextFanOut ==
    \E r \in Requests :
        \/ Post(r) \/ SendQuery(r)
        \/ Rephrase(r) \/ SearchFrom(r, PipelineSearchResults) \/ SendSourcesWeb(r)
        \/ ItemStep(r) \/ (\E i \in 1..Len(req[r].items) : LateTimer(r, i))
        \/ FanIn(r) \/ SendVectorWeb(r)
        \/ Fail(r)

TimerFires(r, i) ==
    /\ i \in 1..Len(req[r].items)
    /\ (TimerFire(r, i) \/ LateTimer(r, i))

FairFanOut ==
    \A r \in Requests :
        /\ \A i \in 1..MaxSources : WF_vars(TimerFires(r, i))
        /\ WF_vars(FanIn(r))
        /\ WF_vars(SendVectorWeb(r))

SpecFanOut == Init /\ [][NextFanOut]_vars /\ FairFanOut

\* every request is handled at the same time, each one a separate invocation of
\* POST in web-search mode
InitConcurrent ==
    /\ req = [r \in Requests |-> NewRequest("start")]
    /\ store = <<>>
    /\ log = <<>>

\* the provider returns one acceptable result
ConcurrentSearchResults ==
    {docs \in SearchResults : Len(docs) = 1 /\ KeepDoc(docs[1])}

\* the page fetch of the item settles before its timer fires
ItemStepInTime(r) ==
    /\ ItemStep(r)
    /\ \A i \in 1..Len(req[r].items) : ~req'[r].items[i].timedOut

\* a part of the stream that has delta content
StreamPartWithContent(r) ==
    /\ StreamPart(r)
    /\ req'[r].accumulatedContent # req[r].accumulatedContent

NextConcurrent ==
    \E r \in Requests :
        \/ (Post(r) /\ req'[r].embeddingSource = "web") \/ SendQuery(r)
        \/ Rephrase(r) \/ SearchFrom(r, ConcurrentSearchResults) \/ SendSourcesWeb(r)
        \/ ItemStepInTime(r) \/ FanIn(r) \/ SendVectorWeb(r)
        \/ OpenStream(r) \/ CreateRow(r) \/ SendHeading(r)
        \/ StreamPartWithContent(r) \/ StreamEnd(r)
        \/ GenerateFollowup(r) \/ SendFollowup(r)

SpecConcurrent == InitConcurrent /\ [][NextConcurrent]_vars

(***************************************************************************)
(* Properties                                                              *)
(***************************************************************************)
\* the writes request r issued, in order
WritesOf(r) == SelectSeq(log, LAMBDA e : e.req = r)

IsInsert(e, type) == e.op = "insert" /\ e.payload.type = type
IsUpdate(e) == e.op = "update"

Succeeded(r) == req[r].response = "ok"

PipelineHead == <<"Query", "Sources", "VectorCreation", "GPT", "Heading">>

\* w is a prefix of: Query, Sources, VectorCreation, GPT(''), Heading('Answer'),
\* updates of that GPT row, FollowUp
InPipelineOrder(w) ==
    \A i \in 1..Len(w) :
        /\ i <= Len(PipelineHead) => IsInsert(w[i], PipelineHead[i])
        /\ i = 4 => w[i].payload.content = <<>>
        /\ i = 5 => w[i].payload.content = <<"Answer">>
        /\ i > Len(PipelineHead) =>
              \/ IsUpdate(w[i]) /\ w[i].id = w[4].id
              \/ IsInsert(w[i], "FollowUp") /\ i = Len(w)

\* C1: the writes of a request are, in order, the inserts of Query, Sources,
\* VectorCreation, the GPT row with empty content, Heading 'Answer', then
\* updates of that GPT row, then the FollowUp insert; the response
\* 'Processing request' exists only once the FollowUp insert has been made.
C1_WriteOrder ==
    \A r \in Requests :
        /\ InPipelineOrder(WritesOf(r))
        /\ Succeeded(r) =>
              /\ Len(WritesOf(r)) > Len(PipelineHead)
              /\ IsInsert(WritesOf(r)[Len(WritesOf(r))], "FollowUp")

C1_Witness ==
    \E r \in Requests :
        /\ Succeeded(r)
        /\ req[r].embeddingSource # "database"
        /\ \E i \in 1..Len(WritesOf(r)) : IsUpdate(WritesOf(r)[i])
        /\ \E i \in 1..Len(req[r].items) : ~req[r].items[i].result.null

\* cosine similarity of the query embedding and a stored vector, compared exactly:
\* cos(q, v1) < cos(q, v2), for vectors of non-zero magnitude
Dot(q, v) == SumSeq([i \in 1..Len(q) |-> q[i].v * v[i]])
Magnitude2(v) == SumSeq([i \in 1..Len(v) |-> v[i] * v[i]])
CosineLess(q, v1, v2) ==
    /\ Magnitude2(v1) > 0 /\ Magnitude2(v2) > 0
    /\ SignedSquare(Dot(q, v1)) * Magnitude2(v2) < SignedSquare(Dot(q, v2)) * Magnitude2(v1)

\* the stored vector of the row a ranked document was made from
VectorOf(rows, doc) == rows[doc.url].vector

Ranked(r) == req[r].pc = "dbSources"

\* C2: in database mode the selected documents are min(4, n) distinct rows of the
\* n returned, in non-increasing order of cosine similarity to the query, and no
\* row left out is strictly more similar than a selected one.
C2_TopBySimilarity ==
    \A r \in Requests :
        Ranked(r) =>
            LET rows == req[r].embeddingsData
                top == req[r].topDocuments
                q == req[r].queryEmbedding
                chosen == {top[i].url : i \in 1..Len(top)}
            IN /\ Len(top) = Min(TopCount, Len(rows))
               /\ Cardinality(chosen) = Len(top)
               /\ \A i \in 1..Len(top) :
                     /\ top[i].url \in 1..Len(rows)
                     /\ top[i].content = rows[top[i].url].content
               /\ \A i, j \in 1..Len(top) :
                     i < j => ~CosineLess(q, VectorOf(rows, top[i]), VectorOf(rows, top[j]))
               /\ \A x \in (1..Len(rows)) \ chosen :
                     \A i \in 1..Len(top) :
                        ~CosineLess(q, VectorOf(rows, top[i]), rows[x].vector)

\* the text budget the web branch keeps: 4 chunks of 200 characters, joined
ContextBudget == TopCount * ChunkSize + SeparatorLength * (TopCount - 1)

Triggered(r) == req[r].inputString.form # "none"

\* C3: the context given to triggerLLMAndFollowup is the text of the top-ranked
\* documents, in rank order, and its length never exceeds a fixed budget.
C3_ContextWithinBudget ==
    \A r \in Requests :
        Triggered(r) =>
            LET input == req[r].inputString
            IN /\ input.form = "Context/Query" =>
                    /\ input.context.pieces =
                          [i \in 1..Len(req[r].topDocuments) |->
                              req[r].topDocuments[i].content]
                    /\ input.context.length <= ContextBudget
               /\ input.form = "Query/TopResults" =>
                    SumSeq([i \in 1..Len(input.results) |->
                               input.results[i].docs[1].pageContent.len]) <= ContextBudget

\* concatenation, in arrival order, of the deltas received
RECURSIVE Flatten(_)
Flatten(parts) == IF parts = <<>> THEN <<>> ELSE Head(parts) \o Flatten(Tail(parts))

GptRows(rows) == {i \in 1..Len(rows) : rows[i].payload.type = "GPT"}

\* the content of the GPT row of request r
AnswerRow(r) == store[CHOOSE i \in 1..Len(store) : store[i].id = req[r].rowId]

\* the GPT row of a request holds the concatenation of the deltas processed so far
AnswerPersisted ==
    \A r \in Requests :
        req[r].rowId # 0 =>
            /\ \E i \in 1..Len(store) : store[i].id = req[r].rowId
            /\ AnswerRow(r).payload.type = "GPT"
            /\ AnswerRow(r).payload.content = Flatten(req[r].received)

\* a step keeps every persisted answer a prefix of its next value, and a part
\* without delta content writes nothing
AnswerGrows ==
    /\ \A i \in GptRows(store) :
          /\ i <= Len(store')
          /\ store'[i].payload.type = "GPT"
          /\ IsPrefix(store[i].payload.content, store'[i].payload.content)
    /\ \A r \in Requests :
          req'[r].received = Append(req[r].received, <<>>) =>
              store' = store /\ log' = log

\* C4: while the answer streams, the GPT row equals the concatenation, in arrival
\* order, of the non-empty deltas received so far (so also when the stream has
\* ended); every persisted value is a prefix of the later ones; a part with no
\* delta content causes no write.
C4_IncrementalAnswer == [](AnswerPersisted) /\ [][AnswerGrows]_vars

C4_Witness ==
    \E r \in Requests :
        /\ req[r].pc = "followup"
        /\ Len(req[r].received) = 2
        /\ req[r].received[1] # <<>> /\ req[r].received[2] # <<>>
        /\ AnswerRow(r).payload.content = req[r].received[1] \o req[r].received[2]

RowIds(rows) == {rows[i].id : i \in 1..Len(rows)}

\* what one write does to the rows
WriteEffect(e) ==
    /\ e.op = "insert" =>
          /\ e.id \notin RowIds(store)
          /\ store' = Append(store, [id |-> e.id, payload |-> e.payload])
    /\ e.op = "update" =>
          /\ Len(store') = Len(store)
          /\ \A i \in 1..Len(store) :
                IF store[i].id = e.id
                THEN store'[i] = [id |-> e.id, payload |-> e.payload]
                ELSE store'[i] = store[i]

SinkStep ==
    /\ Len(store') >= Len(store)
    /\ \A i \in 1..Len(store) :
          /\ store'[i].id = store[i].id
          /\ store[i].payload.type # "GPT" => store'[i] = store[i]
    /\ log' = log => store' = store
    /\ log' # log => /\ Len(log') = Len(log) + 1
                     /\ SubSeq(log', 1, Len(log)) = log
                     /\ WriteEffect(log'[Len(log')])

\* C5: every insert adds exactly one row and leaves the others as they are; an
\* update changes only the payload of the row with the given id and adds no row;
\* no row is ever removed; rows of type Query, Sources, VectorCreation, Heading
\* or FollowUp are never modified.
C5_AppendOrUpdateOnly == [][SinkStep]_vars

C5_Witness ==
    /\ \E i \in 1..Len(log) : IsUpdate(log[i])
    /\ \E i \in 1..Len(store) : store[i].payload.type = "FollowUp"

\* C6: every update targets the id createRowForGPTResponse returned to the same
\* request, whose row was inserted earlier with type 'GPT' and empty content;
\* the updated payload has type 'GPT'; no update names an id the request did not
\* insert before.
C6_RowExistsThenUpdated ==
    /\ \A i \in 1..Len(log) :
          IsUpdate(log[i]) =>
              /\ log[i].payload.type = "GPT"
              /\ req[log[i].req].rowId \in {0, log[i].id}    \* 0: the request has failed
              /\ \E j \in 1..(i - 1) :
                    /\ IsInsert(log[j], "GPT")
                    /\ log[j].payload.content = <<>>
                    /\ log[j].req = log[i].req
                    /\ log[j].id = log[i].id
    /\ \A r \in Requests :
          req[r].rowId # 0 =>
              \E j \in 1..Len(log) :
                  IsInsert(log[j], "GPT") /\ log[j].req = r /\ log[j].id = req[r].rowId

C6_Witness ==
    \E i \in 1..Len(log) :
        /\ IsUpdate(log[i])
        /\ req[log[i].req].pc = "stream"
        /\ store[log[i].id].payload.content # <<>>

UsesDatabase(r) == req[r].embeddingSource = "database"

CountWrites(r, type) ==
    Cardinality({i \in 1..Len(WritesOf(r)) : IsInsert(WritesOf(r)[i], type)})

AnswerTriggered(r) ==
    req[r].pc \in {"openStream", "createRow", "heading", "stream", "followup",
                   "sendFollowup", "done"}

\* C7: with embeddingSource 'database' the request reads the embedding table and
\* never calls the rephraser, the search provider or the page fetcher; with any
\* other value it calls the search provider and never embeds the query for, or
\* reads, the table; either way exactly one 'Sources' and one 'VectorCreation'
\* payload have been appended when the answer is triggered, and none of the
\* answer's rows before.
C7_OneSourcePerRequest ==
    \A r \in Requests :
        /\ UsesDatabase(r) =>
              /\ req[r].calls.rephrase = 0 /\ req[r].calls.search = 0
              /\ req[r].calls.fetch = 0 /\ req[r].items = <<>>
        /\ ~UsesDatabase(r) =>
              /\ req[r].calls.embed = 0 /\ req[r].calls.table = 0
              /\ req[r].embeddingsData = <<>>
        /\ AnswerTriggered(r) =>
              /\ CountWrites(r, "Sources") = 1 /\ CountWrites(r, "VectorCreation") = 1
              /\ IF UsesDatabase(r) THEN req[r].calls.table = 1
                 ELSE req[r].calls.search = 1
        /\ ~AnswerTriggered(r) /\ req[r].pc # "failed" =>
              CountWrites(r, "GPT") = 0 /\ CountWrites(r, "Heading") = 0

C7_Witness ==
    \E r \in Requests :
        /\ req[r].pc = "openStream"
        /\ req[r].embeddingSource = "web"
        /\ req[r].calls.search = 1 /\ req[r].calls.fetch > 0

\* a timed-out item is settled with null and none of the top results is its page
TimedOutYieldsNull ==
    \A r \in Requests :
        \A i \in 1..Len(req[r].items) :
            req[r].items[i].timedOut =>
                /\ req[r].items[i].pc = "done"
                /\ req[r].items[i].result = NullResult
                /\ \A k \in 1..Len(req[r].inputString.results) :
                      req[r].inputString.results[k].docs[1].metadata # req[r].items[i].link

\* the fetch of a timed-out item settling changes nothing but that fetch
LateFetchIsInert ==
    \A r \in Requests :
        \A i \in 1..Len(req[r].items) :
            ( /\ i <= Len(req'[r].items)
              /\ req[r].items[i].timedOut
              /\ req[r].items[i].fetch = "pending"
              /\ req'[r].items[i].fetch = "settled" ) =>
                /\ store' = store /\ log' = log
                /\ req' = [req EXCEPT ![r].items[i].fetch = "settled"]

\* C8: an item whose timer fires before its fetch completes yields null and
\* contributes nothing to the top results, and its fetch completing or failing
\* afterwards changes neither the results, nor the payloads, nor the response.
C8_TimeoutRace == [](TimedOutYieldsNull) /\ [][LateFetchIsInert]_vars

C8_Witness ==
    \E r \in Requests :
        /\ Succeeded(r)
        /\ \E i, j \in 1..Len(req[r].items) :
              /\ req[r].items[i].timedOut /\ req[r].items[i].fetch = "settled"
              /\ ~req[r].items[j].result.null

\* the payload of the 'Sources' row request r inserted
SourcesOf(r) ==
    LET w == WritesOf(r)
    IN w[CHOOSE i \in 1..Len(w) : IsInsert(w[i], "Sources")].payload.content

Acceptable(entry) ==
    /\ entry.title # <<>> /\ entry.link # <<>>
    /\ \A k \in 1..Len(entry.link) : entry.link[k] # "brave.com"

\* positions of the first MaxSources acceptable results, and the n-th of them
FirstAcceptable(docs) ==
    LET ok == {i \in 1..Len(docs) : Acceptable(docs[i])}
    IN {i \in ok : Cardinality({j \in ok : j < i}) < MaxSources}
NthOf(S, n) == CHOOSE i \in S : Cardinality({j \in S : j < i}) = n - 1

WebSourcesBounded(r) ==
    /\ req[r].pc = "webSources" =>
          LET sel == FirstAcceptable(req[r].docs)
              data == req[r].normalizedData
          IN /\ Len(data) = Cardinality(sel)
             /\ \A n \in 1..Len(data) :
                   /\ data[n].title = req[r].docs[NthOf(sel, n)].title
                   /\ data[n].link = req[r].docs[NthOf(sel, n)].link
    /\ req[r].pc \in {"webSources", "fanout"} =>
          /\ Len(req[r].normalizedData) <= MaxSources
          /\ \A n \in 1..Len(req[r].normalizedData) : Acceptable(req[r].normalizedData[n])
    /\ req[r].pc = "fanout" =>
          /\ SourcesOf(r) = req[r].normalizedData
          /\ Len(req[r].items) = Len(SourcesOf(r))
          /\ \A i \in 1..Len(req[r].items) : req[r].items[i].link = SourcesOf(r)[i].link
          /\ Cardinality({i \in 1..Len(req[r].items) : req[r].items[i].pc # "done"})
                <= MaxSources

DbSourcesAreContext(r) ==
    UsesDatabase(r) /\ CountWrites(r, "Sources") = 1 /\ req[r].pc # "failed" =>
        /\ Len(SourcesOf(r)) <= TopCount
        /\ Len(SourcesOf(r)) = Len(req[r].contextText.pieces)
        /\ \A i \in 1..Len(SourcesOf(r)) :
              /\ SourcesOf(r)[i].title = req[r].contextText.pieces[i]
              /\ SourcesOf(r)[i].link = req[r].topDocuments[i].url
        /\ Triggered(r) => req[r].inputString.context = req[r].contextText

\* C9: in web-search mode the 'Sources' payload lists, in the provider's order,
\* at most 4 results, each with a non-empty title and a non-empty link without
\* 'brave.com', and the fan-out has one item per entry, so at most 4 run at a
\* time; in database mode the 'Sources' payload has at most 4 entries, the
\* documents whose contents form the context, in the same order.
C9_BoundedFanOut ==
    \A r \in Requests : WebSourcesBounded(r) /\ DbSourcesAreContext(r)

C9_Witness ==
    \E r \in Requests :
        /\ req[r].pc = "fanout"
        /\ Len(req[r].items) = MaxSources
        /\ \A i \in 1..Len(req[r].items) : req[r].items[i].pc = "race"
        /\ req[r].items[1].link = SearchDoc(2, "ok").link
        /\ req[r].items[MaxSources].link = SearchDoc(MaxDocs, "ok").link

\* C10: a request that succeeded appended exactly one 'FollowUp' payload; a
\* 'FollowUp' payload is the last write of its request, made after the stream
\* ended with the whole answer in the GPT row, and its content is the follow-up
\* generator's output for the input string the answer streamer was given.
C10_FollowUpLast ==
    \A r \in Requests :
        /\ CountWrites(r, "FollowUp") <= 1
        /\ Succeeded(r) => CountWrites(r, "FollowUp") = 1
        /\ CountWrites(r, "FollowUp") = 1 =>
              LET w == WritesOf(r)
              IN /\ IsInsert(w[Len(w)], "FollowUp")
                 /\ req[r].pc = "done"
                 /\ AnswerRow(r).payload.content = Flatten(req[r].received)
                 /\ req[r].gptInput = req[r].inputString
                 /\ w[Len(w)].payload.content = generateFollowup(req[r].gptInput)

C10_Witness ==
    \E r \in Requests :
        /\ Succeeded(r)
        /\ UsesDatabase(r)
        /\ Len(req[r].topDocuments) = TopCount
        /\ \E i \in 1..Len(WritesOf(r)) : IsUpdate(WritesOf(r)[i])
\* C11: in web-search mode, with every started timer firing, the fan-out of a
\* request is always followed by its 'VectorCreation' insert (or by the failure
\* of that insert), whichever calls made for the items never return.
VectorCreationDone(r) ==
    \/ \E k \in 1..Len(log) : log[k].req = r /\ IsInsert(log[k], "VectorCreation")
    \/ req[r].pc = "failed"

C11_FanInCompletes ==
    \A r \in Requests : (req[r].pc = "fanout") ~> VectorCreationDone(r)

\* the positions of the items that resolved to a result
Resolved(items) == {i \in 1..Len(items) : ~items[i].result.null}

\* the top results given to the answer are the results of the items that did not
\* yield null, one per source, in the order of the 'Sources' payload
TopResultsFromSources ==
    \A r \in Requests :
        (Triggered(r) /\ ~UsesDatabase(r)) =>
            LET results == req[r].inputString.results
                ok == Resolved(req[r].items)
            IN /\ Len(req[r].items) = Len(SourcesOf(r))
               /\ Len(results) = Cardinality(ok)
               /\ \A n \in 1..Len(results) :
                     /\ Len(results[n].docs) = 1
                     /\ results[n].docs[1].metadata = SourcesOf(r)[NthOf(ok, n)].link
               /\ \E k \in 1..Len(log) :
                     log[k].req = r /\ IsInsert(log[k], "VectorCreation")

\* once every item has settled, whatever it yielded, the fan-in goes on
FanInProceeds ==
    \A r \in Requests :
        /\ (req[r].pc = "fanout" /\ AllSettled(r)) => ENABLED FanIn(r)
        /\ req[r].pc = "webVector" => ENABLED SendVectorWeb(r)

\* a step of the fan-out settles or advances one item and touches neither the
\* other items, nor the rows, nor the response; an item that settles without a
\* result settles with null
ItemFailureContained ==
    \A r \in Requests :
        (req[r].pc = "fanout" /\ req'[r] # req[r]) =>
            /\ req'[r].pc \in {"fanout", "webVector"}
            /\ req'[r].response = req[r].response
            /\ store' = store /\ log' = log
            /\ Len(req'[r].items) = Len(req[r].items)
            /\ Cardinality({i \in 1..Len(req[r].items) :
                               req'[r].items[i] # req[r].items[i]}) <= 1
            /\ \A i \in 1..Len(req[r].items) :
                  LET old == req[r].items[i]
                      new == req'[r].items[i]
                  IN /\ new.link = old.link
                     /\ old.pc = "done" => (new.pc = "done" /\ new.result = old.result)
                     /\ (old.pc \in {"race", "split", "embed"} /\ new.pc = "done") =>
                            new.result = NullResult

\* C12: a failure inside a fan-out item (fetch, timeout, chunking, embedding,
\* similarity search, or a text under 250 characters) makes that item yield null
\* and leaves the other items and the request alone; the pipeline still appends
\* 'VectorCreation' and triggers the answer, with the results of the remaining
\* items, at most one per source, in the order of the 'Sources' payload, and with
\* the empty list when every item yielded null.
C12_ItemFailureIsolated ==
    [](TopResultsFromSources /\ FanInProceeds) /\ [][ItemFailureContained]_vars

C12_Witness ==
    \E r \in Requests :
        /\ Succeeded(r)
        /\ Len(req[r].items) = MaxSources
        /\ Resolved(req[r].items) = {}
        /\ req[r].inputString.results = <<>>
        /\ \E i, j \in 1..Len(req[r].items) :
              /\ req[r].items[i].timedOut
              /\ ~req[r].items[j].timedOut

Failed(r) == req[r].response = "error"

\* the row with the given id
RowOf(id) == store[CHOOSE i \in 1..Len(store) : store[i].id = id]

\* the payload the writes w leave in the row with the given id
LastWritten(w, id) ==
    LET ks == {k \in 1..Len(w) : w[k].id = id}
    IN w[CHOOSE k \in ks : \A j \in ks : j <= k].payload

\* every row a request wrote is in the store, with what the request wrote last
RowsInPlace(r) ==
    \A k \in 1..Len(WritesOf(r)) :
        LET e == WritesOf(r)[k]
        IN /\ e.id \in RowIds(store)
           /\ RowOf(e.id).payload = LastWritten(WritesOf(r), e.id)

\* a failed request has no response but the error, its rows stay, and it has no
\* 'FollowUp' row; the success response needs every write up to 'FollowUp'
ResponseMatchesOutcome ==
    \A r \in Requests :
        /\ RowsInPlace(r)
        /\ req[r].pc = "failed" <=> Failed(r)
        /\ Failed(r) =>
              \A k \in 1..Len(WritesOf(r)) : ~IsInsert(WritesOf(r)[k], "FollowUp")
        /\ Succeeded(r) =>
              /\ req[r].pc = "done"
              /\ Len(WritesOf(r)) > Len(PipelineHead)
              /\ \A i \in 1..Len(PipelineHead) : IsInsert(WritesOf(r)[i], PipelineHead[i])
              /\ IsInsert(WritesOf(r)[Len(WritesOf(r))], "FollowUp")

\* the failing step writes nothing and undoes nothing, and a failed request
\* stays failed and never writes again
NoWriteOnceFailed ==
    \A r \in Requests :
        /\ (Failed(r)' /\ ~Failed(r)) => (store' = store /\ log' = log)
        /\ Failed(r) =>
              /\ Failed(r)'
              /\ WritesOf(r)' = WritesOf(r)
              /\ \A k \in 1..Len(WritesOf(r)) :
                    RowOf(WritesOf(r)[k].id)' = RowOf(WritesOf(r)[k].id)

\* C13: when a step outside the fan-out items fails, POST answers with the
\* error (status 500), writes nothing at or after the failing step and leaves
\* the rows written before in place, a partially written GPT row included, with
\* no 'FollowUp' row; 'Processing request' is answered only after every write
\* up to and including the 'FollowUp' insert.
C13_FailureStopsPipeline ==
    [](ResponseMatchesOutcome) /\ [][NoWriteOnceFailed]_vars

C13_Witness ==
    \E r \in Requests :
        /\ Failed(r)
        /\ \E k \in 1..Len(WritesOf(r)) :
              /\ IsUpdate(WritesOf(r)[k])
              /\ RowOf(WritesOf(r)[k].id).payload.type = "GPT"
              /\ RowOf(WritesOf(r)[k].id).payload.content # <<>>
              /\ Len(RowOf(WritesOf(r)[k].id).payload.content) < MaxParts

\* request r inserted the GPT row with the given id
OwnsRow(r, id) ==
    \E k \in 1..Len(log) : log[k].req = r /\ IsInsert(log[k], "GPT") /\ log[k].id = id

\* where the row with the given id stands in the store
PositionOf(id) == CHOOSE i \in 1..Len(store) : store[i].id = id

UpdatesOwnRowOnly ==
    \A k \in 1..Len(log) : IsUpdate(log[k]) => OwnsRow(log[k].req, log[k].id)

\* a GPT row holds the deltas of the stream of the request that inserted it
OwnDeltasOnly ==
    \A k \in 1..Len(log) :
        IsInsert(log[k], "GPT") =>
            /\ log[k].id \in RowIds(store)
            /\ RowOf(log[k].id).payload.type = "GPT"
            /\ RowOf(log[k].id).payload.content = Flatten(req[log[k].req].received)
            /\ \A n \in 1..Len(RowOf(log[k].id).payload.content) :
                  <<RowOf(log[k].id).payload.content[n]>> \in
                      UNION {StreamParts(log[k].req, j) : j \in 1..MaxParts}

\* the rows of a request stand in the store in the order of its pipeline
OwnRowsInOrder ==
    \A r \in Requests :
        LET w == WritesOf(r)
        IN /\ InPipelineOrder(w)
           /\ \A i, j \in 1..Len(w) :
                 (i < j /\ w[i].op = "insert" /\ w[j].op = "insert") =>
                     PositionOf(w[i].id) < PositionOf(w[j].id)

\* vectorCount counts the items of its own request only: an item adds one after
\* fromTexts and one more in the catch if similaritySearch then throws
CountsOwnItems ==
    \A r \in Requests :
        req[r].pc = "fanout" =>
            req[r].vectorCount <=
                Cardinality({i \in 1..Len(req[r].items) :
                                req[r].items[i].pc \in {"search", "done"}})
                + Cardinality({i \in 1..Len(req[r].items) :
                                  /\ req[r].items[i].pc = "done"
                                  /\ req[r].items[i].result.null})

\* C14: with several POST requests handled at the same time, every update goes
\* to the GPT row its own request inserted, every GPT row holds the deltas of
\* its own request's stream and nothing else, and the rows of each request
\* stand in the store in that request's pipeline order.
C14_RequestsIsolated ==
    UpdatesOwnRowOnly /\ OwnDeltasOnly /\ OwnRowsInOrder /\ CountsOwnItems

C14_Witness ==
    /\ \A r \in Requests : Succeeded(r)
    /\ \E a, b, c \in 1..Len(log) :
          /\ a < b /\ b < c
          /\ IsUpdate(log[a]) /\ IsUpdate(log[b]) /\ IsUpdate(log[c])
          /\ log[a].req = log[c].req /\ log[a].req # log[b].req
    /\ \E i, j \in 1..Len(store) :
          /\ i < j
          /\ store[i].payload.type = "GPT" /\ store[j].payload.type = "GPT"
          /\ Len(store[i].payload.content) = MaxParts
          /\ Len(store[j].payload.content) = MaxParts
          /\ store[i].payload.content # store[j].payload.content

====
